---- MODULE Spec2Model ----
(***************************************************************************)
(* Price estimation core of pyth-client: the candle volatility estimator   *)
(* (pc/ext/candle_model.cpp), the standard price estimator                 *)
(* (pc/ext/price_model.cpp) and the replay driver                          *)
(* (pctest/test_price_model.hpp).                                          *)
(*                                                                         *)
(* Units.  Time is counted in ticks; timestamps are unsigned and nsecs are *)
(* signed integers of the same (reduced) width, converted as the casts in  *)
(* timestamp.hpp convert them.  A price_interval (double) x is held as the *)
(* integer x * PRICE_INTERVAL_ONE; products, quotients, square roots and   *)
(* logarithms are computed on that representation, rounding down.          *)
(***************************************************************************)
EXTENDS Integers, Sequences, FiniteSets

\* ------------------------------------------------------------- bounds

\* Constructor arguments of the models under check.
Lookback == 1
CandleNs == 2
TimeoutNs == 2
MinSlotNs == 1
MinInterval == 1
InitVolatility == 100

\* Inputs the environment draws from.
MaxTime == 4
MinPrice == 0
MaxPrice == 2
MaxTrades == 3

Times == 0..MaxTime
Prices == MinPrice..MaxPrice

\* A longer ring and the trades that rotate it.
RingLookback == 2
MaxRingTime == 7
MaxRingTrades == 5

\* Inputs of the replay driver.
MaxRunTime == 2
MaxRunTrades == 2
MaxRunEvals == 2

RunTimes == 0..MaxRunTime

\* --------------------------------------------------- timestamp.hpp

\* std::numeric_limits< timestamp >::max() of the reduced-width timestamp.
TIMESTAMP_MAX == 63

\* Ticks per year (annualisation).
NS_PER_YEAR == 16

NSECS_MAX == (TIMESTAMP_MAX - 1) \div 2

\* static_cast< timestamp >( nsecs ): reduction modulo 2^w.
to_timestamp(ns) == ns % (TIMESTAMP_MAX + 1)

\* static_cast< nsecs >( ts ): two's complement reinterpretation.
as_ns(ts) == IF ts > NSECS_MAX THEN ts - (TIMESTAMP_MAX + 1) ELSE ts

\* Signed integer division of C++ (truncation towards zero), b > 0.
TruncDiv(a, b) == IF a >= 0 THEN a \div b ELSE -((-a) \div b)

add_time(ts, ns) == to_timestamp(as_ns(ts) + ns)

diff_times(ts1, ts2) == as_ns(ts1) - as_ns(ts2)

floor_time(ts, interval) == to_timestamp(TruncDiv(as_ns(ts), interval) * interval)

\* ------------------------------------------- price_interval (double)

\* The price_interval value 1.0.
PRICE_INTERVAL_ONE == 100

as_interval(x) == x * PRICE_INTERVAL_ONE

Max(a, b) == IF a < b THEN b ELSE a
Min(a, b) == IF b < a THEN b ELSE a

FMul(a, b) == (a * b) \div PRICE_INTERVAL_ONE
FDiv(a, b) == (a * PRICE_INTERVAL_ONE) \div b

RECURSIVE SqrtSearch(_, _, _)
\* Greatest r in lo..hi-1 with r * r <= n, given lo * lo <= n < hi * hi.
SqrtSearch(n, lo, hi) ==
  IF hi - lo <= 1 THEN lo
  ELSE LET mid == (lo + hi) \div 2
       IN IF mid * mid <= n THEN SqrtSearch(n, mid, hi) ELSE SqrtSearch(n, lo, mid)

\* std::sqrt on the fixed-point representation, a >= 0.
FSqrt(a) == SqrtSearch(a * PRICE_INTERVAL_ONE, 0, a * PRICE_INTERVAL_ONE + 1)

\* std::log( num / den ) for 0 < den <= num: 2 * atanh((num - den) / (num + den)),
\* three terms of the series.
FLogRatio(num, den) ==
  LET z == ((num - den) * PRICE_INTERVAL_ONE) \div (num + den)
      z2 == FMul(z, z)
      z3 == FMul(z2, z)
      z5 == FMul(z3, z2)
  IN 2 * (z + z3 \div 3 + z5 \div 5)

\* ------------------------------------------------- std::optional values

NoTrade == [has_value |-> FALSE, price_ |-> 0, time_ |-> 0]
SomeTrade(trade) == [has_value |-> TRUE, price_ |-> trade.price_, time_ |-> trade.time_]

NoRange == [has_value |-> FALSE, high_ |-> 0, low_ |-> 0]

NoInterval == [has_value |-> FALSE, val |-> 0]
SomeInterval(v) == [has_value |-> TRUE, val |-> v]

NoEstimate == [has_value |-> FALSE, price_ |-> 0, conf_ |-> 0]
SomeEstimate(p, c) == [has_value |-> TRUE, price_ |-> p, conf_ |-> c]

\* ------------------------------------------------------ price_range

\* price_range( open )
price_range(open) == [has_value |-> TRUE, high_ |-> open, low_ |-> open]

\* Only the high of the range follows the price.
add_price_high_only(r, p) == [r EXCEPT !.high_ = Max(r.high_, p)]

\* price_range::add_price
add_price(r, p) == [r EXCEPT !.high_ = Max(r.high_, p), !.low_ = Min(r.low_, p)]

\* The half-width taken as low - high.
interval_inverted(r) == as_interval(r.low_ - r.high_) \div 2

interval(r) == as_interval(r.high_ - r.low_) \div 2

\* ------------------------------------------------------ candle_model

\* candle_model( lookback, candle_ns ); the vectors are resized to capacity_
\* value-initialised elements.
candle_model(lookback, candle_ns) ==
  [ capacity_ |-> 1 + lookback,
    candle_ns_ |-> candle_ns,
    count_ |-> 0,
    front_ |-> 0,
    starts_ |-> [i \in 0..lookback |-> 0],
    highs_ |-> [i \in 0..lookback |-> 0],
    lows_ |-> [i \in 0..lookback |-> 0] ]

\* The trade's time taken as the start of its candle, unfloored.
candle_start_unfloored(cm, trade) == trade.time_

\* The start of the candle a trade belongs to (candle_model.cpp line 31).
candle_start(cm, trade) == floor_time(trade.time_, cm.candle_ns_)

\* A trade in the front candle's own bucket opens a new candle too.
prepends_on_equal(cm, start) == cm.count_ = 0 \/ start >= cm.starts_[cm.front_]

\* Whether a trade starting at start opens a new candle (line 33).
prepends(cm, start) == cm.count_ = 0 \/ start > cm.starts_[cm.front_]

\* The front index of a prepended candle (line 35).
prepended_front(cm) == (cm.front_ + cm.capacity_ - 1) % cm.capacity_

\* Only the high of the front candle is widened.
widen_front_high_only(cm, price) ==
  [cm EXCEPT !.highs_[cm.front_] = Max(cm.highs_[cm.front_], price)]

\* The front candle widened by a price (lines 43-44).
widen_front(cm, price) ==
  [cm EXCEPT !.highs_[cm.front_] = Max(cm.highs_[cm.front_], price),
             !.lows_[cm.front_] = Min(cm.lows_[cm.front_], price)]

\* candle_model::add_trade: the candle model after the call and whether
\* PC_ASSERT_EQ threw.
candle_model_add_trade(cm, trade) ==
  LET price == as_interval(trade.price_)
      start == candle_start(cm, trade)
      front == prepended_front(cm)
      cm1 == IF prepends(cm, start)
             THEN [cm EXCEPT !.front_ = front,
                             !.count_ = Min(cm.count_ + 1, cm.capacity_),
                             !.highs_[front] = price,
                             !.lows_[front] = price,
                             !.starts_[front] = start]
             ELSE cm
  IN IF start # cm1.starts_[cm1.front_]
     THEN [threw |-> TRUE, cm |-> cm1]
     ELSE [threw |-> FALSE, cm |-> widen_front(cm1, price)]

RECURSIVE SumTo(_, _)
\* f[0] + ... + f[n]
SumTo(f, n) == IF n < 0 THEN 0 ELSE f[n] + SumTo(f, n - 1)

\* The ring never leaves its warm-up.
warming_up_always(cm) == TRUE

\* A full ring still counts as warming up.
warming_up_when_full(cm) == cm.count_ <= cm.capacity_

\* The warm-up test of eval_volatility (line 51).
warming_up(cm) == cm.count_ < cm.capacity_

\* candle_model::eval_volatility: the optional volatility, or threw.
candle_model_eval_volatility(cm) ==
  IF ~(cm.count_ <= cm.capacity_) THEN [threw |-> TRUE, ret |-> NoInterval]
  ELSE IF warming_up(cm) THEN [threw |-> FALSE, ret |-> NoInterval]
  ELSE
    LET pairs == 0..(cm.count_ - 2)
        cur(i) == (cm.front_ + i) % cm.capacity_
        prev(i) == (cur(i) + 1) % cm.capacity_
        max_high(i) == Max(cm.highs_[cur(i)], cm.highs_[prev(i)])
        min_low(i) == Min(cm.lows_[cur(i)], cm.lows_[prev(i)])
        prev_start(i) == cm.starts_[prev(i)]
        cur_end(i) == add_time(cm.starts_[cur(i)], cm.candle_ns_)
        asserts(i) == /\ min_low(i) > 0
                      /\ min_low(i) <= max_high(i)
                      /\ cur_end(i) > prev_start(i)
    IN IF \E i \in pairs : ~asserts(i) THEN [threw |-> TRUE, ret |-> NoInterval]
       ELSE
         LET log_ratio(i) == FLogRatio(max_high(i), min_low(i))
             numer == SumTo([i \in pairs |-> FMul(log_ratio(i), log_ratio(i))],
                            cm.count_ - 2)
             spans == SumTo([i \in pairs |->
                              as_interval(diff_times(cur_end(i), prev_start(i)))],
                            cm.count_ - 2)
             denom == FMul(spans, 4 * FLogRatio(2, 1))
             ns_per_year == as_interval(NS_PER_YEAR)
         IN [threw |-> FALSE,
             ret |-> SomeInterval(FSqrt(FMul(FDiv(numer, denom), ns_per_year)))]

\* ----------------------------------------------- standard_price_model

\* standard_price_model( vol_model, min_conf_interval, timeout, min_slot_ns,
\* init_volatility )
standard_price_model(vol_model, min_conf_interval, timeout, min_slot_ns, init_volatility) ==
  [ volatility_model_ |-> vol_model,
    min_interval_ |-> min_conf_interval,
    init_volatility_ |-> init_volatility,
    timeout_ns_ |-> timeout,
    min_slot_ns_ |-> min_slot_ns,
    last_trade_ |-> NoTrade,
    range_since_eval_ |-> NoRange ]

\* The range and the last trade are updated before the volatility model is fed.
standard_price_model_add_trade_range_first(m, trade) ==
  LET price == trade.price_
      range == IF ~m.range_since_eval_.has_value
               THEN price_range(price)
               ELSE m.range_since_eval_
      vol == candle_model_add_trade(m.volatility_model_, trade)
  IN [threw |-> vol.threw,
      model |-> [m EXCEPT !.volatility_model_ = vol.cm,
                          !.range_since_eval_ = add_price(range, price),
                          !.last_trade_ = SomeTrade(trade)]]

\* standard_price_model::add_trade
standard_price_model_add_trade(m, trade) ==
  LET price == trade.price_
      vol == candle_model_add_trade(m.volatility_model_, trade)
      range == IF ~m.range_since_eval_.has_value
               THEN price_range(price)
               ELSE m.range_since_eval_
  IN IF vol.threw
     THEN [threw |-> TRUE, model |-> [m EXCEPT !.volatility_model_ = vol.cm]]
     ELSE [threw |-> FALSE,
           model |-> [m EXCEPT !.volatility_model_ = vol.cm,
                               !.range_since_eval_ = add_price(range, price),
                               !.last_trade_ = SomeTrade(trade)]]

\* The base term of the confidence interval floored at min_interval_
\* (price_model.cpp lines 64-75), given the volatility model's answer.
floored_conf_interval(m, ns_since_trade, yearly_vol) ==
  LET years_since_trade ==
        FDiv(as_interval(Max(ns_since_trade, m.min_slot_ns_)), as_interval(NS_PER_YEAR))
      vol == IF yearly_vol.has_value THEN yearly_vol.val ELSE m.init_volatility_
      conf_interval ==
        FMul(FMul(vol, FSqrt(years_since_trade)), as_interval(m.last_trade_.price_))
  IN Max(conf_interval, m.min_interval_)

\* Stale already at the timeout itself.
is_stale_at_timeout(m, ns_since_trade) == ns_since_trade >= m.timeout_ns_

\* Staleness measured against min_slot_ns_.
is_stale_past_min_slot(m, ns_since_trade) == ns_since_trade > m.min_slot_ns_

\* The staleness test (price_model.cpp line 59).
is_stale(m, ns_since_trade) == ns_since_trade > m.timeout_ns_

\* The stale return clears the range.
stale_return_clearing(m) ==
  [threw |-> FALSE, model |-> [m EXCEPT !.range_since_eval_ = NoRange], ret |-> NoEstimate]

\* The stale return (lines 59-61).
stale_return(m) == [threw |-> FALSE, model |-> m, ret |-> NoEstimate]

\* The range is widened by but never reset.
widen_without_reset(m, conf_interval) ==
  IF m.range_since_eval_.has_value
  THEN [threw |-> FALSE, model |-> m,
        ret |-> SomeEstimate(m.last_trade_.price_,
                             Max(conf_interval, interval(m.range_since_eval_)))]
  ELSE [threw |-> FALSE, model |-> m,
        ret |-> SomeEstimate(m.last_trade_.price_, conf_interval)]

\* The reset hits last_trade_ instead of range_since_eval_.
widen_and_reset_last_trade(m, conf_interval) ==
  IF m.range_since_eval_.has_value
  THEN [threw |-> FALSE,
        model |-> [m EXCEPT !.last_trade_ = NoTrade],
        ret |-> SomeEstimate(m.last_trade_.price_,
                             Max(conf_interval, interval(m.range_since_eval_)))]
  ELSE [threw |-> FALSE, model |-> m,
        ret |-> SomeEstimate(m.last_trade_.price_, conf_interval)]

\* Widening by the range since the last eval, its reset, and the return
\* (lines 76-81).
widen_and_reset(m, conf_interval) ==
  IF m.range_since_eval_.has_value
  THEN [threw |-> FALSE,
        model |-> [m EXCEPT !.range_since_eval_ = NoRange],
        ret |-> SomeEstimate(m.last_trade_.price_,
                             Max(conf_interval, interval(m.range_since_eval_)))]
  ELSE [threw |-> FALSE, model |-> m,
        ret |-> SomeEstimate(m.last_trade_.price_, conf_interval)]

\* standard_price_model::eval_at_time
standard_price_model_eval_at_time(m, now) ==
  IF ~m.last_trade_.has_value
  THEN [threw |-> FALSE, model |-> m, ret |-> NoEstimate]
  ELSE
    LET ns_since_trade == diff_times(now, m.last_trade_.time_)
    IN IF ~(ns_since_trade >= 0)
       THEN [threw |-> TRUE, model |-> m, ret |-> NoEstimate]
       ELSE IF is_stale(m, ns_since_trade)
       THEN stale_return(m)
       ELSE
         LET yearly_vol == candle_model_eval_volatility(m.volatility_model_)
         IN IF yearly_vol.threw
            THEN [threw |-> TRUE, model |-> m, ret |-> NoEstimate]
            ELSE widen_and_reset(
                   m, floored_conf_interval(m, ns_since_trade, yearly_vol.ret))

\* -------------------------------------------------------------- state

VARIABLES
  model,       \* the standard_price_model and the candle_model it owns
  call,        \* the last call made on the model and the time passed to it
  result,      \* what that call returned, or that it threw
  buckets,     \* floored times of the trades the candle model accepted
  traded,      \* (floored time, price) of the trades the candle model accepted
  since_eval,  \* prices added since the last eval that returned an estimate
  n_trades,    \* number of trades accepted
  prev,        \* what the call before the last one returned, if an eval_at_time
  vol_returned,\* eval_volatility has returned a value
  trades_,     \* unit_test::trades_: the trade columns, row by row
  evals_,      \* unit_test::evals_: the eval columns, row by row
  trade_idx,   \* price_model_test::run: index of the next trade (from 0)
  eval_idx,    \* price_model_test::run: index of the next eval (from 0)
  pc           \* where price_model_test::run stands

ghosts == <<buckets, traded, since_eval, n_trades, prev, vol_returned>>

driver == <<trades_, evals_, trade_idx, eval_idx, pc>>

vars == <<model, call, result, ghosts, driver>>

NoCall == [op |-> "none", time_ |-> 0]

NoResult == [threw |-> FALSE, has_value |-> FALSE, price_ |-> 0, conf_ |-> 0]

NoEval == [is_eval |-> FALSE, time_ |-> 0, has_value |-> FALSE, conf_ |-> 0]

\* The last call, if it was an eval_at_time that returned.
Last == IF call.op = "eval_at_time" /\ ~result.threw
        THEN [is_eval |-> TRUE, time_ |-> call.time_,
              has_value |-> result.has_value, conf_ |-> result.conf_]
        ELSE NoEval

\* price_model_test::make_price_model with the model arguments under check.
make_price_model ==
  standard_price_model(candle_model(Lookback, CandleNs),
                       MinInterval, TimeoutNs, MinSlotNs, InitVolatility)

InitModel ==
  /\ model = make_price_model
  /\ call = NoCall
  /\ result = NoResult
  /\ buckets = {}
  /\ traded = {}
  /\ since_eval = {}
  /\ n_trades = 0
  /\ prev = NoEval
  /\ vol_returned = FALSE

\* A price model driven call by call; no replay is running.
Init ==
  /\ InitModel
  /\ trades_ = << >>
  /\ evals_ = << >>
  /\ trade_idx = 0
  /\ eval_idx = 0
  /\ pc = "calls"

\* The candle model owned by the price model.
VM == model.volatility_model_

\* model->add_trade( trade ) and what the ghosts record of it.
DoAddTrade(trade) ==
  LET r == standard_price_model_add_trade(model, trade)
  IN /\ model' = r.model
     /\ call' = [op |-> "add_trade", time_ |-> trade.time_]
     /\ result' = [NoResult EXCEPT !.threw = r.threw]
     /\ buckets' = IF r.threw THEN buckets
                   ELSE buckets \cup {trade.time_ - (trade.time_ % VM.candle_ns_)}
     /\ traded' = IF r.threw THEN traded
                  ELSE traded \cup {[start_ |-> floor_time(trade.time_, VM.candle_ns_),
                                     price_ |-> trade.price_]}
     /\ since_eval' = IF r.threw THEN since_eval ELSE since_eval \cup {trade.price_}
     /\ n_trades' = IF r.threw THEN n_trades ELSE n_trades + 1
     /\ prev' = Last
     /\ UNCHANGED vol_returned

\* model->eval_at_time( now ) and what the ghosts record of it.
DoEvalAtTime(now) ==
  LET r == standard_price_model_eval_at_time(model, now)
  IN /\ model' = r.model
     /\ call' = [op |-> "eval_at_time", time_ |-> now]
     /\ result' = [threw |-> r.threw, has_value |-> r.ret.has_value,
                   price_ |-> r.ret.price_, conf_ |-> r.ret.conf_]
     /\ since_eval' = IF r.ret.has_value THEN {} ELSE since_eval
     /\ prev' = Last
     /\ UNCHANGED <<buckets, traded, n_trades, vol_returned>>

\* A caller adds a trade.
AddTrade ==
  /\ pc = "calls"
  /\ n_trades < MaxTrades
  /\ \E p \in Prices, t \in Times : DoAddTrade([price_ |-> p, time_ |-> t])
  /\ UNCHANGED driver

\* A caller evaluates the price model.
EvalAtTime ==
  /\ pc = "calls"
  /\ \E now \in Times : DoEvalAtTime(now)
  /\ UNCHANGED driver

\* A caller evaluates the volatility model: candle_model::eval_volatility().
EvalVolatility ==
  /\ pc = "calls"
  /\ LET r == candle_model_eval_volatility(model.volatility_model_)
     IN /\ call' = [op |-> "eval_volatility", time_ |-> 0]
        /\ result' = [threw |-> r.threw, has_value |-> r.ret.has_value,
                      price_ |-> 0, conf_ |-> r.ret.val]
        /\ prev' = Last
        /\ vol_returned' = (vol_returned \/ r.ret.has_value)
        /\ UNCHANGED <<model, buckets, traded, since_eval, n_trades, driver>>

Next == AddTrade \/ EvalAtTime \/ EvalVolatility

Spec == Init /\ [][Next]_vars

\* ----------------------------------------- price_model_test::run

\* 1 / conf_tol for the default conf_tol of 0.00001.
CONF_TOL_INV == 100000

SeqsUpTo(S, n) == UNION {[1..k -> S] : k \in 0..n}

\* Expected confs the eval columns draw from: a negative one, the "no
\* estimate" sentinel, the floor, and init_volatility * sqrt(1 / NS_PER_YEAR).
ExpectedConfs == {-MinInterval, 0, MinInterval, FMul(InitVolatility, FSqrt(FDiv(1, NS_PER_YEAR)))}

\* A replay about to run on columns built by unit_test::run.
InitRun ==
  /\ InitModel
  /\ trades_ \in SeqsUpTo([price_ : Prices, time_ : RunTimes], MaxRunTrades)
  /\ evals_ \in SeqsUpTo([time_ : RunTimes, price_ : Prices, conf_ : ExpectedConfs],
                         MaxRunEvals)
  /\ trade_idx = 0
  /\ eval_idx = 0
  /\ pc = "validate"

trade_count == Len(trades_)
eval_count == Len(evals_)

\* validate_args: the columns are set and of equal sizes as unit_test::run
\* builds them; the model and test arguments are in range.
validate_args ==
  /\ InitVolatility >= 0
  /\ MinInterval >= 0
  /\ MinSlotNs >= 0
  /\ TimeoutNs > 0
  /\ CandleNs > 0
  /\ Lookback > 0

\* No monotonicity check on the trade times.
trades_unchecked == TRUE

\* The monotonicity loops of run (lines 160-162 and 168-171); index i of the
\* source is row i + 1 here.
trades_checked == \A i \in 2..trade_count : trades_[i - 1].time_ <= trades_[i].time_

evals_checked ==
  \A i \in 2..eval_count :
    /\ evals_[i - 1].time_ <= evals_[i].time_
    /\ evals_[i].conf_ >= 0

\* eval_time of the loop (lines 181-185).
eval_time == IF eval_idx < eval_count THEN evals_[eval_idx + 1].time_ ELSE TIMESTAMP_MAX

\* Every trade is fed before any eval is issued.
feeds_trade_first == trade_idx < trade_count

\* The trade at trade_idx is fed although it shares the eval's timestamp.
feeds_trade_on_tie == trade_idx < trade_count /\ eval_time >= trades_[trade_idx + 1].time_

\* The trade branch's condition (line 187).
feeds_trade == trade_idx < trade_count /\ eval_time > trades_[trade_idx + 1].time_

\* The comparison of an eval's result with the expected row (lines 200-208),
\* conf_tol = 1 / CONF_TOL_INV.
compares(actual, expected) ==
  IF actual.has_value
  THEN /\ actual.price_ = expected.price_
       /\ actual.conf_ * CONF_TOL_INV >= expected.conf_ * (CONF_TOL_INV - 1)
       /\ actual.conf_ * CONF_TOL_INV <= expected.conf_ * (CONF_TOL_INV + 1)
  ELSE /\ expected.price_ = 0
       /\ expected.conf_ = 0

\* run up to the loop (lines 155-178): validate_args, the monotonicity
\* checks, make_price_model.
RunValidate ==
  /\ pc = "validate"
  /\ pc' = IF validate_args /\ trades_checked /\ evals_checked THEN "loop" ELSE "failed"
  /\ model' = make_price_model
  /\ UNCHANGED <<call, result, ghosts, trades_, evals_, trade_idx, eval_idx>>

\* The loop's trade branch (lines 187-193).
RunAddTrade ==
  /\ pc = "loop"
  /\ feeds_trade
  /\ DoAddTrade(trades_[trade_idx + 1])
  /\ trade_idx' = IF result'.threw THEN trade_idx ELSE trade_idx + 1
  /\ pc' = IF result'.threw THEN "failed" ELSE "loop"
  /\ UNCHANGED <<trades_, evals_, eval_idx>>

\* The loop's eval branch (lines 195-211).
RunEval ==
  /\ pc = "loop"
  /\ ~feeds_trade
  /\ eval_idx < eval_count
  /\ DoEvalAtTime(eval_time)
  /\ LET passed == ~result'.threw /\ compares(result', evals_[eval_idx + 1])
     IN /\ eval_idx' = IF passed THEN eval_idx + 1 ELSE eval_idx
        /\ pc' = IF passed THEN "loop" ELSE "failed"
  /\ UNCHANGED <<trades_, evals_, trade_idx>>

\* The loop's break and the final checks (lines 213-219).
RunBreak ==
  /\ pc = "loop"
  /\ ~feeds_trade
  /\ ~(eval_idx < eval_count)
  /\ pc' = IF trade_idx = trade_count /\ eval_idx = eval_count THEN "done" ELSE "failed"
  /\ UNCHANGED <<model, call, result, ghosts, trades_, evals_, trade_idx, eval_idx>>

NextRun == RunValidate \/ RunAddTrade \/ RunEval \/ RunBreak

SpecRun == InitRun /\ [][NextRun]_vars

\* ------------------------------- scenarios, default configuration

\* Ticks per second: a tick is DEFAULT_MIN_SLOT, 500 ms.
NS_PER_SEC == 2

DEFAULT_LOOKBACK == 20
DEFAULT_DURATION == NS_PER_SEC * 60
DEFAULT_TIMEOUT == NS_PER_SEC * 60
DEFAULT_MIN_SLOT == 1
DEFAULT_MIN_INTERVAL == 1
DEFAULT_VOLATILITY == PRICE_INTERVAL_ONE

\* A standard_price_model and its candle_model built with every optional
\* argument left unset.
default_price_model ==
  standard_price_model(candle_model(DEFAULT_LOOKBACK, DEFAULT_DURATION),
                       DEFAULT_MIN_INTERVAL, DEFAULT_TIMEOUT, DEFAULT_MIN_SLOT,
                       DEFAULT_VOLATILITY)

\* The start times t0 of the two-trade scenario.
ScenarioStarts == {0, 5}

\* t0, t0 + 1 s, and the times 5 and 10 of the monotone violation.
ScenarioTimes == ScenarioStarts \cup {t0 + NS_PER_SEC : t0 \in ScenarioStarts} \cup {5, 10}

ScenarioPrices == {100, 110}

\* Expected confs of the scenarios: (110 - 100) / 2, and the base term of a
\* trade at 100 evaluated one second later.
ScenarioConfs ==
  {as_interval(5),
   FMul(FMul(DEFAULT_VOLATILITY, FSqrt(FDiv(NS_PER_SEC, NS_PER_YEAR))), as_interval(100))}

\* Either a caller drives a default model call by call, or a replay is about
\* to run on scenario columns.
InitDefault ==
  /\ model = default_price_model
  /\ call = NoCall
  /\ result = NoResult
  /\ buckets = {}
  /\ traded = {}
  /\ since_eval = {}
  /\ n_trades = 0
  /\ prev = NoEval
  /\ vol_returned = FALSE
  /\ trade_idx = 0
  /\ eval_idx = 0
  /\ \/ /\ pc = "calls"
        /\ trades_ = << >>
        /\ evals_ = << >>
     \/ /\ pc = "validate"
        /\ trades_ \in SeqsUpTo([price_ : ScenarioPrices, time_ : ScenarioTimes], 2)
        /\ evals_ \in SeqsUpTo([time_ : ScenarioTimes, price_ : ScenarioPrices,
                                conf_ : ScenarioConfs], 1)

\* run up to the loop with no model argument set: make_price_model builds the
\* default model.
RunValidateDefault ==
  /\ pc = "validate"
  /\ pc' = IF trades_checked /\ evals_checked THEN "loop" ELSE "failed"
  /\ model' = default_price_model
  /\ UNCHANGED <<call, result, ghosts, trades_, evals_, trade_idx, eval_idx>>

\* A caller adds one of the scenario trades.
ScenarioAddTrade ==
  /\ pc = "calls"
  /\ n_trades < 2
  /\ \E p \in ScenarioPrices, t \in ScenarioTimes : DoAddTrade([price_ |-> p, time_ |-> t])
  /\ UNCHANGED driver

\* A caller evaluates at one of the scenario times.
ScenarioEvalAtTime ==
  /\ pc = "calls"
  /\ \E now \in ScenarioTimes : DoEvalAtTime(now)
  /\ UNCHANGED driver

NextDefault ==
  \/ ScenarioAddTrade
  \/ ScenarioEvalAtTime
  \/ RunValidateDefault
  \/ RunAddTrade
  \/ RunEval
  \/ RunBreak

SpecDefault == InitDefault /\ [][NextDefault]_vars

\* ------------------------- the candle model over the whole timestamp range

\* Every value a timestamp of the reduced width can hold.
Timestamps == 0..TIMESTAMP_MAX

\* A caller adds a trade whose time is any timestamp, the upper half of the
\* range (where as_ns is negative) included.
AddTradeAnyTime ==
  /\ pc = "calls"
  /\ n_trades < 2
  /\ \E t \in Timestamps : DoAddTrade([price_ |-> MaxPrice, time_ |-> t])
  /\ UNCHANGED driver

NextCandle == AddTradeAnyTime \/ EvalVolatility

SpecCandle == Init /\ [][NextCandle]_vars

\* ------------------------------ replays over the ends of the timestamp range

\* The two smallest and the two greatest timestamps.
ReplayTimes == {0, 1, TIMESTAMP_MAX - 1, TIMESTAMP_MAX}

\* A replay about to run on columns whose times reach
\* std::numeric_limits< timestamp >::max().
InitReplay ==
  /\ InitModel
  /\ trades_ \in SeqsUpTo([price_ : Prices, time_ : ReplayTimes], 2)
  /\ evals_ \in SeqsUpTo([time_ : ReplayTimes, price_ : Prices, conf_ : ExpectedConfs], 1)
  /\ trade_idx = 0
  /\ eval_idx = 0
  /\ pc = "validate"

\* run is sequential code: it keeps stepping until it returns or throws.
SpecReplay == InitReplay /\ [][NextRun]_vars /\ WF_vars(NextRun)

\* ------------------------------------- construction of the price model

\* A std::optional argument over S, or a shared_ptr to one of S: unset
\* (nullptr) or holding a value.
Unset == [has_value |-> FALSE, val |-> 0]
Optional(S) == {Unset} \cup {[has_value |-> TRUE, val |-> v] : v \in S}

\* std::optional::value_or
value_or(opt, default) == IF opt.has_value THEN opt.val ELSE default

\* The constructor's assertions without the one on min_slot_ns_ < timeout_ns_.
ctor_asserts_no_timeout(m) ==
  /\ m.min_interval_ >= 0
  /\ m.init_volatility_ >= 0
  /\ m.min_slot_ns_ >= 0

\* The assertions of the constructor body (price_model.cpp lines 32-36);
\* volatility_model_ was initialised from vol_model or from make_shared and
\* is not null.
ctor_asserts(m) ==
  /\ m.min_interval_ >= 0
  /\ m.init_volatility_ >= 0
  /\ m.min_slot_ns_ >= 0
  /\ m.min_slot_ns_ < m.timeout_ns_

\* standard_price_model::standard_price_model on a shared_ptr and optional
\* arguments: the object, or threw.
construct_standard_price_model(vol_model, min_conf_interval, timeout, min_slot_ns, init_volatility) ==
  LET m == standard_price_model(
             value_or(vol_model, candle_model(DEFAULT_LOOKBACK, DEFAULT_DURATION)),
             value_or(min_conf_interval, DEFAULT_MIN_INTERVAL),
             value_or(timeout, DEFAULT_TIMEOUT),
             value_or(min_slot_ns, DEFAULT_MIN_SLOT),
             value_or(init_volatility, DEFAULT_VOLATILITY))
  IN [threw |-> ~ctor_asserts(m), model |-> m]

\* No price model has been constructed.
NoModel == [constructed |-> FALSE]

\* A host about to construct its price model.
InitConstruct ==
  /\ model = NoModel
  /\ call = NoCall
  /\ result = NoResult
  /\ buckets = {}
  /\ traded = {}
  /\ since_eval = {}
  /\ n_trades = 0
  /\ prev = NoEval
  /\ vol_returned = FALSE
  /\ trades_ = << >>
  /\ evals_ = << >>
  /\ trade_idx = 0
  /\ eval_idx = 0
  /\ pc = "construct"

\* The host constructs the price model; call records the arguments.
Construct ==
  /\ pc = "construct"
  /\ \E vol_model \in Optional({candle_model(Lookback, CandleNs)}),
        min_conf_interval \in Optional({-MinInterval, 0, MinInterval}),
        timeout \in Optional({0, MinSlotNs, TimeoutNs}),
        min_slot_ns \in Optional({-1, 0, MinSlotNs, TimeoutNs}),
        init_volatility \in Optional({-InitVolatility, 0, InitVolatility}) :
       LET r == construct_standard_price_model(vol_model, min_conf_interval, timeout,
                                               min_slot_ns, init_volatility)
       IN /\ model' = IF r.threw THEN model ELSE r.model
          /\ call' = [op |-> "standard_price_model", time_ |-> 0,
                      vol_model |-> vol_model,
                      min_conf_interval |-> min_conf_interval,
                      timeout |-> timeout,
                      min_slot_ns |-> min_slot_ns,
                      init_volatility |-> init_volatility]
          /\ result' = [NoResult EXCEPT !.threw = r.threw]
          /\ pc' = IF r.threw THEN "failed" ELSE "calls"
  /\ UNCHANGED <<ghosts, trades_, evals_, trade_idx, eval_idx>>

NextConstruct == Construct \/ EvalAtTime

SpecConstruct == InitConstruct /\ [][NextConstruct]_vars

\* ------------------------------------------------- rotation of the ring

RingTimes == 0..MaxRingTime
RingPrices == {MaxPrice - 1, MaxPrice}

\* A price model whose candle model looks back RingLookback candles.
InitRing ==
  /\ model = standard_price_model(candle_model(RingLookback, CandleNs),
                                  MinInterval, TimeoutNs, MinSlotNs, InitVolatility)
  /\ call = NoCall
  /\ result = NoResult
  /\ buckets = {}
  /\ traded = {}
  /\ since_eval = {}
  /\ n_trades = 0
  /\ prev = NoEval
  /\ vol_returned = FALSE
  /\ trades_ = << >>
  /\ evals_ = << >>
  /\ trade_idx = 0
  /\ eval_idx = 0
  /\ pc = "calls"

\* A caller adds one of up to MaxRingTrades trades.
RingAddTrade ==
  /\ pc = "calls"
  /\ n_trades < MaxRingTrades
  /\ \E p \in RingPrices, t \in RingTimes : DoAddTrade([price_ |-> p, time_ |-> t])
  /\ UNCHANGED driver

NextRing == RingAddTrade \/ EvalVolatility

SpecRing == InitRing /\ [][NextRing]_vars

\* ------------------------------------------------------------- claims

\* Index of the i-th newest live candle.
Live(i) == (VM.front_ + i) % VM.capacity_

\* C1: once a trade has been added, the front candle's start is
\* floor_time(time of the most recently added trade, candle_ns_).
C1_FrontStartIsFlooredTradeTime ==
  model.last_trade_.has_value =>
    /\ VM.count_ > 0
    /\ VM.starts_[VM.front_] = floor_time(model.last_trade_.time_, VM.candle_ns_)

C1_Witness ==
  /\ call.op = "add_trade" /\ ~result.threw
  /\ n_trades = 2
  /\ model.last_trade_.time_ = 3
  /\ VM.starts_[VM.front_] = 2

\* C2: walking the count_ live candles from the front (newest) to the back,
\* the starts are strictly decreasing.
C2_StartsStrictlyDecreasing ==
  \A i \in 0..(VM.count_ - 2) : VM.starts_[Live(i)] > VM.starts_[Live(i + 1)]

C2_Witness ==
  /\ call.op = "add_trade" /\ ~result.threw
  /\ VM.count_ = VM.capacity_
  /\ Cardinality(buckets) > VM.capacity_
  /\ VM.starts_[Live(0)] > VM.starts_[Live(1)]

\* C3: eval_volatility returns absent iff fewer than lookback + 1 distinct
\* buckets have been seen; once it has returned a value it never returns
\* absent again.
C3_AbsentIffWarmingUp ==
  call.op = "eval_volatility" =>
    /\ (~result.threw /\ ~result.has_value) <=> (Cardinality(buckets) < Lookback + 1)
    /\ vol_returned => (result.threw \/ result.has_value)

C3_Witness ==
  /\ call.op = "eval_volatility"
  /\ result.has_value /\ result.conf_ > 0
  /\ Cardinality(buckets) = Lookback + 1

\* now - last_trade_.time_ for an eval_at_time( now ) issued in this state.
Elapsed(now) == diff_times(now, model.last_trade_.time_)

\* C4: every estimate eval_at_time returns has conf >= min_interval_ and
\* conf >= (high - low) / 2 of range_since_eval_ as it was just before the call.
C4_ConfAtLeastFloorAndRange ==
  [][ (call'.op = "eval_at_time" /\ result'.has_value) =>
        /\ result'.conf_ >= model.min_interval_
        /\ model.range_since_eval_.has_value =>
             2 * result'.conf_ >=
               as_interval(model.range_since_eval_.high_ - model.range_since_eval_.low_)
    ]_vars

C4_Witness ==
  /\ call.op = "eval_at_time" /\ result.has_value
  /\ since_eval = {}
  /\ result.conf_ = as_interval(1)
  /\ result.conf_ > model.min_interval_

\* C5: eval_at_time( now ) with now - last_trade_.time_ > timeout_ns_ returns
\* absent and leaves last_trade_, the candle ring and range_since_eval_ as
\* they were.
C5_StaleEvalChangesNothing ==
  [][ (/\ call'.op = "eval_at_time"
       /\ model.last_trade_.has_value
       /\ Elapsed(call'.time_) > model.timeout_ns_) =>
        /\ ~result'.threw /\ ~result'.has_value
        /\ model' = model
    ]_vars

C5_Witness ==
  /\ call.op = "eval_at_time" /\ ~result.threw /\ ~result.has_value
  /\ model.last_trade_.has_value
  /\ Elapsed(call.time_) > model.timeout_ns_
  /\ model.range_since_eval_.has_value
  /\ model.range_since_eval_.high_ > model.range_since_eval_.low_

\* C6: with a last trade, eval_at_time( now ) returns an estimate with
\* price = last_trade_.price_ whenever 0 <= elapsed <= timeout_ns_ (unless the
\* volatility model throws) and returns absent whenever elapsed > timeout_ns_.
C6_EstimateUpToTimeoutAbsentAfter ==
  [][ (call'.op = "eval_at_time" /\ model.last_trade_.has_value) =>
        /\ (/\ 0 <= Elapsed(call'.time_)
            /\ Elapsed(call'.time_) <= model.timeout_ns_
            /\ ~candle_model_eval_volatility(VM).threw) =>
             /\ ~result'.threw /\ result'.has_value
             /\ result'.price_ = model.last_trade_.price_
        /\ Elapsed(call'.time_) > model.timeout_ns_ =>
             (~result'.threw /\ ~result'.has_value)
    ]_vars

C6_Witness ==
  /\ call.op = "eval_at_time" /\ result.has_value
  /\ model.last_trade_.has_value
  /\ Elapsed(call.time_) = model.timeout_ns_
  /\ result.price_ = model.last_trade_.price_

\* In the stale scenario: exactly one trade, at t = 0, has been added.
SingleTradeAtZero ==
  n_trades = 1 /\ model.last_trade_.has_value /\ model.last_trade_.time_ = 0

\* The last call was eval_at_time( timeout_ns_ + 1 ) and returned absent.
AfterStaleEval ==
  /\ call.op = "eval_at_time" /\ call.time_ = model.timeout_ns_ + 1
  /\ ~result.threw /\ ~result.has_value

\* C7 as stated: after a single trade at t = 0, eval_at_time( timeout_ns_ + 1 )
\* returns absent, and a following eval_at_time( timeout_ns_ ) returns absent too.
C7_Original ==
  [][ (SingleTradeAtZero /\ call'.op = "eval_at_time") =>
        /\ call'.time_ = model.timeout_ns_ + 1 =>
             (~result'.threw /\ ~result'.has_value)
        /\ (AfterStaleEval /\ call'.time_ = model.timeout_ns_) =>
             (~result'.threw /\ ~result'.has_value)
    ]_vars

\* C7 amended: after a single trade at t = 0, eval_at_time( timeout_ns_ + 1 )
\* returns absent, and a following eval_at_time( timeout_ns_ ) returns an
\* estimate with that trade's price.
C7_StaleThenEstimateAtTimeout ==
  [][ (SingleTradeAtZero /\ call'.op = "eval_at_time") =>
        /\ call'.time_ = model.timeout_ns_ + 1 =>
             (~result'.threw /\ ~result'.has_value)
        /\ (AfterStaleEval /\ call'.time_ = model.timeout_ns_) =>
             /\ ~result'.threw /\ result'.has_value
             /\ result'.price_ = model.last_trade_.price_
    ]_vars

C7_Witness ==
  /\ SingleTradeAtZero
  /\ prev.is_eval /\ prev.time_ = model.timeout_ns_ + 1 /\ ~prev.has_value
  /\ call.op = "eval_at_time" /\ call.time_ = model.timeout_ns_
  /\ result.has_value

\* C8: range_since_eval_ is absent initially, present after every add_trade
\* that returns, absent after every eval_at_time that returns an estimate and
\* unchanged by an eval_at_time that returns absent; it is present exactly
\* when a trade was added since the last estimate-returning eval.
C8_RangeStateMachine ==
  /\ [](/\ call.op = "none" => ~model.range_since_eval_.has_value
        /\ (call.op = "add_trade" /\ ~result.threw) => model.range_since_eval_.has_value
        /\ (call.op = "eval_at_time" /\ result.has_value) =>
             ~model.range_since_eval_.has_value
        /\ model.range_since_eval_.has_value <=> since_eval # {})
  /\ [][ (call'.op = "eval_at_time" /\ ~result'.has_value) =>
           model'.range_since_eval_ = model.range_since_eval_ ]_vars

C8_Witness ==
  /\ prev.is_eval /\ prev.has_value
  /\ call.op = "add_trade" /\ ~result.threw
  /\ model.range_since_eval_.has_value
  /\ Cardinality(since_eval) = 1

\* C9: an eval_at_time( t ) repeated at the same t right after one that
\* returned (p, c1) returns (p, c2), c2 the base term floored at min_interval_
\* with no range term, c2 <= c1, and leaves the state as the first left it.
C9_RepeatedEval ==
  [][ (/\ call.op = "eval_at_time" /\ result.has_value
       /\ call'.op = "eval_at_time" /\ call'.time_ = call.time_) =>
        /\ ~result'.threw /\ result'.has_value
        /\ result'.price_ = result.price_
        /\ result'.conf_ =
             floored_conf_interval(model, Elapsed(call.time_),
                                   candle_model_eval_volatility(VM).ret)
        /\ result'.conf_ <= result.conf_
        /\ model' = model
    ]_vars

C9_Witness ==
  /\ prev.is_eval /\ prev.has_value
  /\ call.op = "eval_at_time" /\ call.time_ = prev.time_
  /\ result.has_value
  /\ result.conf_ < prev.conf_

\* C10: at the moment the replay driver issues an evaluation, the trades
\* already fed are exactly the trades whose time is strictly less than the
\* evaluation's time; a trade sharing its timestamp is fed only afterwards.
C10_EvalSeesStrictlyEarlierTrades ==
  (pc # "validate" /\ call.op = "eval_at_time") =>
    /\ call.time_ = evals_[IF pc = "failed" THEN eval_idx + 1 ELSE eval_idx].time_
    /\ \A i \in 1..trade_count : (i <= trade_idx) <=> (trades_[i].time_ < call.time_)

C10_Witness ==
  /\ pc = "loop" /\ call.op = "eval_at_time" /\ result.has_value
  /\ trade_count = 2 /\ trade_idx = 1
  /\ trades_[1].time_ < call.time_
  /\ trades_[2].time_ = call.time_

\* The two-trade scenario: the trades 100 @ t0 and 110 @ t0 + 1 s are
\* replayed together with one evaluation at t0 + 1 s.
TwoTradeScenario ==
  \E t0 \in ScenarioStarts :
    /\ trades_ = << [price_ |-> 100, time_ |-> t0],
                    [price_ |-> 110, time_ |-> t0 + NS_PER_SEC] >>
    /\ eval_count = 1
    /\ evals_[1].time_ = t0 + NS_PER_SEC

\* The replay of the two-trade scenario has issued its evaluation.
TwoTradeEvalIssued == TwoTradeScenario /\ pc # "validate" /\ call.op = "eval_at_time"

\* C11 as stated: in the two-trade scenario the evaluation returns an
\* estimate with price = 110 and conf >= (110 - 100) / 2 = 5.
C11_Original ==
  TwoTradeEvalIssued =>
    /\ ~result.threw /\ result.has_value
    /\ result.price_ = 110
    /\ result.conf_ >= as_interval(5)

\* C11 amended: in the two-trade scenario the evaluation is issued when only
\* the trade 100 @ t0 has been fed (the trade sharing its timestamp is fed
\* after it) and returns an estimate with price = 100 and conf >= min_interval_.
C11_TwoTradesEvalSeesFirstTrade ==
  TwoTradeEvalIssued =>
    /\ trade_idx = 1
    /\ ~result.threw /\ result.has_value
    /\ result.price_ = 100
    /\ result.conf_ >= model.min_interval_

C11_Witness ==
  /\ TwoTradeEvalIssued
  /\ pc = "loop" /\ eval_idx = 1
  /\ result.has_value /\ result.price_ = 100
  /\ model.last_trade_.price_ = 100

\* The monotone violation replayed: a trade at t = 10, then a trade at t = 5.
MonotoneViolationReplayed ==
  /\ pc # "calls" /\ trade_count = 2
  /\ trades_[1].time_ = 10 /\ trades_[2].time_ = 5

\* The monotone violation fed directly: the single trade added so far is at
\* t = 10 and this step is add_trade of a trade at t = 5.
MonotoneViolationFed ==
  /\ pc = "calls" /\ n_trades = 1
  /\ model.last_trade_.time_ = 10
  /\ call'.op = "add_trade" /\ call'.time_ = 5

\* C12 as stated: a trade at t = 10 followed by a trade at t = 5 (default
\* configuration) ends in a precondition failure, both replayed and fed
\* directly to add_trade.
C12_Original ==
  /\ []((MonotoneViolationReplayed /\ pc # "validate") => pc = "failed")
  /\ [][MonotoneViolationFed => result'.threw]_vars

\* C12 amended: replayed, the trade at t = 5 after the one at t = 10 fails the
\* run before any trade is fed; fed directly to add_trade (default
\* configuration) it is accepted, both trades falling into the candle that
\* starts at 0, and becomes the last trade.
C12_MonotoneViolationReplayedNotFed ==
  /\ []((MonotoneViolationReplayed /\ pc # "validate") =>
          (pc = "failed" /\ call = NoCall /\ n_trades = 0))
  /\ [][MonotoneViolationFed =>
          /\ ~result'.threw
          /\ model'.last_trade_.time_ = 5
          /\ model'.volatility_model_.count_ = 1
          /\ model'.volatility_model_.starts_[model'.volatility_model_.front_] = 0
       ]_vars

C12_Witness ==
  /\ pc = "calls" /\ n_trades = 2
  /\ call.op = "add_trade" /\ call.time_ = 5 /\ ~result.threw
  /\ model.last_trade_.time_ = 5
  /\ VM.highs_[VM.front_] = as_interval(110)
  /\ VM.lows_[VM.front_] = as_interval(100)

\* The ring is non-empty and the floored time of a trade at t is strictly
\* before the front candle's start.
StartsBeforeFront(cm, t) ==
  cm.count_ > 0 /\ floor_time(t, cm.candle_ns_) < cm.starts_[cm.front_]

\* C13 as stated: add_trade signals a precondition failure iff the ring is
\* non-empty and floor_time(trade.time, candle_ns_) is strictly less than the
\* front candle's start; no trade of a sequence with non-decreasing times is
\* rejected (stated for the first two trades of a sequence).
C13_Original ==
  [][ call'.op = "add_trade" =>
        /\ result'.threw <=> StartsBeforeFront(VM, call'.time_)
        /\ (n_trades = 0 \/ (n_trades = 1 /\ model.last_trade_.time_ <= call'.time_)) =>
             ~result'.threw
    ]_vars

\* The second trade of a sequence with non-decreasing times has been rejected.
C13_Witness ==
  /\ call.op = "add_trade" /\ result.threw
  /\ n_trades = 1
  /\ model.last_trade_.time_ <= call.time_

\* The last call evaluated the volatility: eval_volatility itself, or an
\* eval_at_time with a last trade and 0 <= elapsed <= timeout_ns_.
VolatilityEvaluated ==
  \/ call.op = "eval_volatility"
  \/ /\ call.op = "eval_at_time"
     /\ model.last_trade_.has_value
     /\ 0 <= Elapsed(call.time_)
     /\ Elapsed(call.time_) <= model.timeout_ns_

FullRingWithNonPositiveLow ==
  /\ VM.count_ = VM.capacity_
  /\ \E i \in 0..(VM.count_ - 1) : VM.lows_[Live(i)] <= 0

PricesIn(start) == {t.price_ : t \in {x \in traded : x.start_ = start}}

SetMax(S) == CHOOSE m \in S : \A x \in S : x <= m
SetMin(S) == CHOOSE m \in S : \A x \in S : m <= x

\* C15: every live candle's (high, low) is the (max, min) of the prices of
\* the accepted trades whose floored time is the candle's start, so
\* low <= high; when all trades fell into one bucket the ring holds exactly
\* one candle.
C15_CandleIsMaxMinOfItsBucket ==
  /\ \A i \in 0..(VM.count_ - 1) :
       LET bucket == PricesIn(VM.starts_[Live(i)])
       IN /\ bucket # {}
          /\ VM.highs_[Live(i)] = as_interval(SetMax(bucket))
          /\ VM.lows_[Live(i)] = as_interval(SetMin(bucket))
          /\ VM.lows_[Live(i)] <= VM.highs_[Live(i)]
  /\ Cardinality({t.start_ : t \in traded}) = 1 => VM.count_ = 1

C15_Witness ==
  /\ n_trades = 3 /\ VM.count_ = 1
  /\ Cardinality(PricesIn(VM.starts_[VM.front_])) = 3
  /\ VM.highs_[VM.front_] = as_interval(MaxPrice)
  /\ VM.lows_[VM.front_] = as_interval(MinPrice)

\* The replay's input breaks a precondition: trade times decrease, eval times
\* decrease, or an expected conf is negative.
BrokenInput ==
  \/ \E i \in 2..trade_count : trades_[i - 1].time_ > trades_[i].time_
  \/ \E i \in 2..eval_count : evals_[i - 1].time_ > evals_[i].time_
  \/ \E i \in 1..eval_count : evals_[i].conf_ < 0

\* The replay failed before any call on the model.
FailedBeforeAnyCall == pc = "failed" /\ call = NoCall

\* C16 as stated: a replay whose input has decreasing trade times, decreasing
\* eval times or a negative expected conf at any index (the first included)
\* fails before any trade is fed or evaluation issued; no other input fails
\* there, equal adjacent timestamps included.
C16_Original ==
  pc # "validate" => (BrokenInput <=> FailedBeforeAnyCall)

\* A replay goes on to call the model although the first expected conf is
\* negative.
C16_Witness ==
  /\ pc = "loop" /\ call.op = "add_trade"
  /\ eval_count = 2 /\ evals_[1].conf_ < 0
  /\ evals_[1].time_ = evals_[2].time_

\* The replay has ended: run returned ("done") or threw ("failed").
RunEnded == pc \in {"done", "failed"}

\* The run threw in its validation: the input is not monotone (or has a
\* negative expected conf after the first).
ValidationFailed == pc = "failed" /\ ~(trades_checked /\ evals_checked)

\* The run threw at the evaluation of row eval_idx + 1: the model threw or a
\* comparison did not pass.
EvalFailed ==
  /\ pc = "failed" /\ eval_idx < eval_count
  /\ call.op = "eval_at_time"
  /\ result.threw \/ ~compares(result, evals_[eval_idx + 1])

\* One step of the loop feeds the trade at trade_idx or issues the evaluation
\* at eval_idx, and advances that index alone.
LoopStepInOrder ==
  \/ /\ call'.op = "add_trade"
     /\ model'.last_trade_ = SomeTrade(trades_[trade_idx + 1])
     /\ trade_idx' = trade_idx + 1 /\ eval_idx' = eval_idx
  \/ /\ call'.op = "eval_at_time"
     /\ call'.time_ = evals_[eval_idx + 1].time_
     /\ eval_idx' = eval_idx + 1 /\ trade_idx' = trade_idx

\* C17 as stated: on monotone T and E whose comparisons all pass the loop
\* terminates, every step having fed the next trade or issued the next
\* evaluation in index order, with trade_idx = |T| and eval_idx = |E| (so after
\* |T| + |E| steps): a run fails only in its validation or at an evaluation.
\* With T and E empty it ends successfully without a call on the model.
C17_Original ==
  /\ <>RunEnded
  /\ [](pc = "failed" => (ValidationFailed \/ EvalFailed))
  /\ [](pc = "done" => (trade_idx = trade_count /\ eval_idx = eval_count))
  /\ []((pc \in {"loop", "done", "failed"} /\ trade_count = 0 /\ eval_count = 0) =>
          (pc # "failed" /\ call = NoCall))
  /\ [][(pc = "loop" /\ pc' = "loop") => LoopStepInOrder]_vars

\* A monotone replay with no evaluation has ended in failure, its trade at
\* std::numeric_limits< timestamp >::max() never fed.
C17_Witness ==
  /\ pc = "failed" /\ call = NoCall
  /\ trade_count = 1 /\ eval_count = 0
  /\ trade_idx = 0
  /\ trades_[1].time_ = TIMESTAMP_MAX

\* The last call was the constructor.
Constructed == call.op = "standard_price_model"

\* An argument of the last constructor call breaks a precondition on the
\* configured values (an unset argument takes its default).
BrokenConfiguration ==
  LET min_interval == value_or(call.min_conf_interval, DEFAULT_MIN_INTERVAL)
      init_volatility == value_or(call.init_volatility, DEFAULT_VOLATILITY)
      min_slot_ns == value_or(call.min_slot_ns, DEFAULT_MIN_SLOT)
      timeout_ns == value_or(call.timeout, DEFAULT_TIMEOUT)
  IN \/ min_interval < 0
     \/ init_volatility < 0
     \/ min_slot_ns < 0
     \/ min_slot_ns >= timeout_ns

\* The Empty state of the price model.
Empty == ~model.last_trade_.has_value /\ ~model.range_since_eval_.has_value

\* C18 as stated: the constructor signals a precondition failure whenever
\* min_interval < 0, init_volatility < 0, min_slot_ns < 0,
\* min_slot_ns >= timeout_ns or no volatility model is supplied; otherwise it
\* succeeds in the Empty state.
C18_Original ==
  Constructed =>
    /\ result.threw <=> (BrokenConfiguration \/ ~call.vol_model.has_value)
    /\ ~result.threw => Empty

\* C18 amended: the constructor signals a precondition failure exactly when
\* min_interval < 0, init_volatility < 0, min_slot_ns < 0 or
\* min_slot_ns >= timeout_ns; otherwise it succeeds in the Empty state, with
\* a fresh default candle model when no volatility model is supplied.
C18_ConstructorPreconditions ==
  Constructed =>
    /\ result.threw <=> BrokenConfiguration
    /\ ~result.threw =>
         /\ Empty
         /\ model.volatility_model_ =
              IF call.vol_model.has_value THEN call.vol_model.val
              ELSE candle_model(DEFAULT_LOOKBACK, DEFAULT_DURATION)

C18_Witness ==
  /\ Constructed /\ ~result.threw /\ pc = "calls"
  /\ ~call.vol_model.has_value
  /\ call.min_slot_ns.has_value /\ call.timeout.has_value
  /\ model.min_slot_ns_ + 1 = model.timeout_ns_
  /\ model.volatility_model_.capacity_ = 1 + DEFAULT_LOOKBACK
  /\ Empty

\* The n greatest elements of S.
Greatest(S, n) == {x \in S : Cardinality({y \in S : y > x}) < n}

\* The starts of the live candles.
LiveStarts == {VM.starts_[Live(i)] : i \in 0..(VM.count_ - 1)}

\* This step is an accepted add_trade that opens a new bucket on a full ring.
RotatesFullRing ==
  /\ call'.op = "add_trade" /\ ~result'.threw
  /\ VM.count_ = VM.capacity_
  /\ buckets' # buckets

\* The slot of the oldest candle becomes the front; every other candle keeps
\* its slot and its (start, high, low) and is one place older.
OverwritesOldestOnly ==
  LET C == VM.capacity_
      new == model'.volatility_model_
  IN /\ new.front_ = Live(C - 1)
     /\ new.count_ = C
     /\ \A i \in 0..(C - 2) :
          /\ (new.front_ + i + 1) % C = Live(i)
          /\ new.starts_[Live(i)] = VM.starts_[Live(i)]
          /\ new.highs_[Live(i)] = VM.highs_[Live(i)]
          /\ new.lows_[Live(i)] = VM.lows_[Live(i)]

\* C19: count_ is min(number of distinct buckets seen, capacity_), front_ is
\* in [0, capacity_), and the ring holds the count_ most recent distinct
\* buckets; a trade opening a new bucket on a full ring overwrites exactly
\* the oldest candle, the others keeping their (start, high, low) and order.
C19_Original ==
  /\ [](/\ VM.count_ = Min(Cardinality(buckets), VM.capacity_)
        /\ VM.front_ \in 0..(VM.capacity_ - 1)
        /\ LiveStarts = Greatest(buckets, VM.count_))
  /\ [][RotatesFullRing => OverwritesOldestOnly]_vars

\* Two accepted trades of two distinct buckets share one candle.
C19_Witness ==
  /\ call.op = "add_trade" /\ ~result.threw
  /\ Cardinality(buckets) = 2
  /\ VM.count_ = 1

\* This step is an operation that signals a precondition failure.
OperationFails ==
  /\ call'.op \in {"add_trade", "eval_at_time", "eval_volatility"}
  /\ result'.threw

\* C20: an operation that signals a precondition failure leaves the model
\* unchanged: a rejected add_trade changes neither the candle ring nor
\* last_trade_ nor range_since_eval_, and a failing eval_at_time does not
\* clear range_since_eval_.
C20_FailedOperationLeavesModelUnchanged ==
  [][OperationFails => model' = model]_vars

\* An eval_at_time at or after the last trade failed inside the volatility
\* evaluation, with a range to clear.
C20_Witness ==
  /\ call.op = "eval_at_time" /\ result.threw
  /\ model.last_trade_.has_value
  /\ call.time_ >= model.last_trade_.time_
  /\ model.range_since_eval_.has_value

\* C21: whenever range_since_eval_ is present, last_trade_ is present and
\* low_ <= last_trade_.price_ <= high_ (so low_ <= high_), and high_ and
\* low_ are the max and min of the prices added since the last eval that
\* returned an estimate.
C21_RangeBracketsLastTrade ==
  model.range_since_eval_.has_value =>
    /\ model.last_trade_.has_value
    /\ model.range_since_eval_.low_ <= model.last_trade_.price_
    /\ model.last_trade_.price_ <= model.range_since_eval_.high_
    /\ model.range_since_eval_.low_ <= model.range_since_eval_.high_
    /\ since_eval # {}
    /\ model.range_since_eval_.high_ = SetMax(since_eval)
    /\ model.range_since_eval_.low_ = SetMin(since_eval)

\* Two prices were added since an estimate was returned, and a price added
\* before that estimate lies outside the range.
C21_Witness ==
  /\ call.op = "add_trade" /\ ~result.threw
  /\ Cardinality(since_eval) = 2
  /\ model.range_since_eval_.low_ < model.range_since_eval_.high_
  /\ \E x \in traded : \/ x.price_ < model.range_since_eval_.low_
                       \/ x.price_ > model.range_since_eval_.high_

\* The replay has passed the checks of run and is in or past its loop.
Replaying == pc \in {"loop", "done", "failed"} /\ trades_checked /\ evals_checked

\* C22: in a replay of inputs that pass the monotonicity checks, every
\* evaluation issued while a last trade exists has now - last_trade_.time_
\* strictly greater than 0, so the elapsed >= 0 precondition never fails, and
\* the candle model never rejects a trade.
C22_Original ==
  Replaying =>
    /\ (call.op = "eval_at_time" /\ model.last_trade_.has_value) => Elapsed(call.time_) > 0
    /\ ~(call.op = "add_trade" /\ result.threw)

\* A replayed evaluation later than the last trade failed on elapsed >= 0.
C22_Witness ==
  /\ Replaying /\ pc = "failed"
  /\ call.op = "eval_at_time" /\ result.threw
  /\ model.last_trade_.has_value
  /\ call.time_ > model.last_trade_.time_
  /\ Elapsed(call.time_) < 0

\* The adjacent pairs (cur, prev) of live candles, by the index of cur.
LivePairs == 0..(VM.count_ - 2)

\* cur_end and the span cur_end - prev.start of pair i, as eval_volatility
\* computes them (lines 68-71).
CurEnd(i) == add_time(VM.starts_[Live(i)], VM.candle_ns_)
Span(i) == diff_times(CurEnd(i), VM.starts_[Live(i + 1)])

\* C23: after accepted add_trade calls the structural assertions of
\* eval_volatility cannot fire: count_ <= capacity_, and every adjacent pair
\* of live candles has cur_end > prev.start with a span of at least
\* 2 * candle_ns_, so the denominator accumulated on a full ring is
\* strictly positive.
C23_Original ==
  /\ VM.count_ <= VM.capacity_
  /\ \A i \in LivePairs : /\ CurEnd(i) > VM.starts_[Live(i + 1)]
                          /\ Span(i) >= 2 * VM.candle_ns_
  /\ VM.count_ = VM.capacity_ =>
       SumTo([i \in LivePairs |-> as_interval(Span(i))], VM.count_ - 2) > 0

\* eval_volatility failed on a full ring of positive prices.
C23_Witness ==
  /\ call.op = "eval_volatility" /\ result.threw
  /\ VM.count_ = VM.capacity_
  /\ \A i \in 0..(VM.count_ - 1) : VM.lows_[Live(i)] > 0
  /\ \E i \in LivePairs : ~(CurEnd(i) > VM.starts_[Live(i + 1)])

====
